---- MODULE Spec2Model ----
(***************************************************************************)
(* One render pass of RPW_Dashboard.py (the Palm Health Dashboard).        *)
(*                                                                         *)
(* The script runs top to bottom once per interaction.  Each action below  *)
(* is one section of the script; pc is the position in the script.         *)
(*                                                                         *)
(* Representation:                                                         *)
(*   - a date folder's name is a number of 1..MaxDates (names such as      *)
(*     "2024-01-01" compare as their numbers do);                          *)
(*   - an ndvi value is an integer number of hundredths (0.6 is 60);       *)
(*   - a DataFrame is [columns |-> set of names, rows |-> sequence of      *)
(*     rows]; a row is a function from column names to values, and a       *)
(*     missing cell (pandas NaN) is a column of the frame that the row     *)
(*     does not carry.  Every comparison with NaN is false.                *)
(*   - every CSV holds at least one record and carries the columns class,  *)
(*     latitude and longitude; the columns ndvi and health_status are      *)
(*     optional; no CSV has a resi column, so the bar chart of lines       *)
(*     101-104 is not drawn.                                               *)
(*   - the file system is read-only during a pass and each file is looked  *)
(*     at once, so what a read finds is chosen when the read happens.      *)
(***************************************************************************)
EXTENDS Integers, Sequences, FiniteSets, TLC

VARIABLES pc, root_exists, entries, all_dates, csv_seen, all_data, full_df,
          selected_date, selected_palm_df, kpi, pie_data, images, map_img,
          heatmaps, risky_palms, at_risk_table, csv_data, time_series,
          shown, error

vars == <<pc, root_exists, entries, all_dates, csv_seen, all_data, full_df,
          selected_date, selected_palm_df, kpi, pie_data, images, map_img,
          heatmaps, risky_palms, at_risk_table, csv_data, time_series,
          shown, error>>

-----------------------------------------------------------------------------
(* Bounds of the model *)

\* number of names an entry of the root folder can have
MaxDates == 2
\* number of records in all the CSV files together
MaxRecords == 2

(* Program constants *)

\* classify_health: row['ndvi'] >= 0.6, in hundredths
HealthyMin == 60
\* classify_health: row['ndvi'] >= 0.3, in hundredths
ModerateMin == 30
\* cols = st.columns(3)
HeatmapCols == 3

-----------------------------------------------------------------------------
(* Input domains *)

Names == 1..MaxDates
Kinds == {"absent", "file", "dir"}

\* class values as written in a file
RawClasses == {"Palm", "soil"}
\* ndvi values: below the lower threshold, and the two thresholds themselves
NdviValues == {ModerateMin - 1, ModerateMin, HealthyMin}
\* health_status values a file can already hold
StoredStatuses == {"Moderate"}

\* column names as written in a file's header line
RawRequired == {"Class", "Latitude", "Longitude "}
RawOptional == {" NDVI", "Health_Status"}
RawHeaders == {RawRequired \cup o : o \in SUBSET RawOptional}

\* the rows a file of `date` with header h can hold at line `line`: the
\* latitude of a record is its line, its longitude the date's number
RawRows(h, line, date) ==
    {[c \in h |-> CASE c = "Class"         -> cl
                   [] c = " NDVI"         -> nd
                   [] c = "Health_Status" -> st
                   [] c = "Latitude"      -> line
                   [] c = "Longitude "    -> date] :
        cl \in RawClasses,
        nd \in IF " NDVI" \in h THEN NdviValues ELSE {0},
        st \in IF "Health_Status" \in h THEN StoredStatuses ELSE {"-"}}

RECURSIVE RawBodies(_, _, _)
RawBodies(h, n, date) ==
    IF n = 0 THEN {<<>>}
    ELSE {Append(b, r) : b \in RawBodies(h, n - 1, date), r \in RawRows(h, n, date)}

\* the classified_index.csv files a date folder can hold: a header line and
\* from one to n records
CsvFiles(date, n) ==
    UNION {{[header |-> h, rows |-> b] :
                b \in UNION {RawBodies(h, k, date) : k \in 1..n}} : h \in RawHeaders}

NoFile == [header |-> {}, rows |-> <<>>]
Unread == [header |-> {"?"}, rows |-> <<>>]

index_names == <<"NDVI", "NDWI", "RESI", "SQRT(IR_R)", "GVI", "DVI", "RDVI">>
IndexSet == {index_names[i] : i \in 1..Len(index_names)}
\* the image files a date folder can hold: the health map without heatmaps,
\* or some of the heatmaps without the health map
ImageSets == {{"health_grid"}, {"NDVI", "RESI"}}

-----------------------------------------------------------------------------
(* Helpers on sequences *)

Range(s) == {s[i] : i \in 1..Len(s)}

\* s[keep]: the elements whose value in the boolean sequence keep is True,
\* in order
RECURSIVE Mask(_, _)
Mask(s, keep) ==
    IF s = <<>> THEN <<>>
    ELSE IF keep[1] THEN <<Head(s)>> \o Mask(Tail(s), Tail(keep))
         ELSE Mask(Tail(s), Tail(keep))

RECURSIVE Flatten(_)
Flatten(ss) == IF ss = <<>> THEN <<>> ELSE Head(ss) \o Flatten(Tail(ss))

RECURSIVE InsertSorted(_, _)
InsertSorted(x, s) ==
    IF s = <<>> THEN <<x>>
    ELSE IF x <= Head(s) THEN <<x>> \o s
         ELSE <<Head(s)>> \o InsertSorted(x, Tail(s))

RECURSIVE sorted(_)
sorted(s) == IF s = <<>> THEN <<>> ELSE InsertSorted(Head(s), sorted(Tail(s)))

Orders(S) == {s \in [1..Cardinality(S) -> S] : Range(s) = S}

-----------------------------------------------------------------------------
(* HELPERS of the script *)

\* df.columns.str.lower().str.strip()
LowerStrip(c) ==
    CASE c = "Class"         -> "class"
      [] c = " NDVI"         -> "ndvi"
      [] c = "Health_Status" -> "health_status"
      [] c = "Latitude"      -> "latitude"
      [] c = "Longitude "    -> "longitude"
      [] OTHER               -> c

\* df['class'].str.lower()
Lower(v) ==
    CASE v = "Palm" -> "palm"
      [] OTHER      -> v

HasCell(row, c) == c \in DOMAIN row

\* the directories in the order the OS lists them, not sorted
get_all_dates_unsorted(listing) ==
    Mask(listing, [i \in 1..Len(listing) |-> entries[listing[i]] = "dir"])

\* get_all_dates(): listing is os.listdir's result, in the order the OS gives
get_all_dates(listing) ==
    sorted(Mask(listing, [i \in 1..Len(listing) |-> entries[listing[i]] = "dir"]))

\* load_data(date_folder) for a folder holding `file`
load_data(date_folder, file) ==
    LET cols == {LowerStrip(c) : c \in file.header}
        raw(c) == CHOOSE x \in file.header : LowerStrip(x) = c
        Row(r) == [c \in cols \cup {"__date__"} |->
                     IF c = "__date__" THEN date_folder
                     ELSE IF c = "class" THEN Lower(r[raw(c)])
                     ELSE r[raw(c)]]
    IN [columns |-> cols \cup {"__date__"},
        rows    |-> [i \in 1..Len(file.rows) |-> Row(file.rows[i])]]

\* row['ndvi'] >= threshold; False for NaN
NdviAtLeast(row, threshold) == HasCell(row, "ndvi") /\ row["ndvi"] >= threshold

\* row['class'] == 'palm'; False for NaN
IsPalm(row) == HasCell(row, "class") /\ row["class"] = "palm"

classify_health(row) ==
    IF ~IsPalm(row) THEN "Soil"
    ELSE IF NdviAtLeast(row, HealthyMin) THEN "Healthy"
    ELSE IF NdviAtLeast(row, ModerateMin) THEN "Moderate"
    ELSE "Unhealthy"

\* pd.concat(all_data, ignore_index=True): the union of the columns, all rows
concat(dfs) ==
    [columns |-> UNION {dfs[i].columns : i \in 1..Len(dfs)},
     rows    |-> Flatten([i \in 1..Len(dfs) |-> dfs[i].rows])]

\* full_df['health_status'] = full_df.apply(classify_health, axis=1)
AssignHealth(df) ==
    [columns |-> df.columns \cup {"health_status"},
     rows    |-> [i \in 1..Len(df.rows) |->
                    [c \in DOMAIN df.rows[i] \cup {"health_status"} |->
                        IF c = "health_status" THEN classify_health(df.rows[i])
                        ELSE df.rows[i][c]]]]

\* row[c] == v; False for NaN
CellIs(row, c, v) == HasCell(row, c) /\ row[c] = v

\* df[keep]
Filter(df, keep) == [columns |-> df.columns, rows |-> Mask(df.rows, keep)]

\* df[df['health_status'] == status].shape[0]
CountStatus(df, status) ==
    Len(Mask(df.rows, [i \in 1..Len(df.rows) |->
                          CellIs(df.rows[i], "health_status", status)]))

\* the order of Python strings on the health_status values
StrRank(v) ==
    CASE v = "Healthy"   -> 1
      [] v = "Moderate"  -> 2
      [] v = "Soil"      -> 3
      [] v = "Unhealthy" -> 4

\* df['health_status'].value_counts(): the count of every value that occurs
value_counts(df) ==
    LET vals == {r["health_status"] : r \in {x \in Range(df.rows) : HasCell(x, "health_status")}}
    IN [v \in vals |-> CountStatus(df, v)]

display_cols == <<"health_status", "latitude", "longitude">>

\* risky_palms[display_cols]
Project(rows) ==
    [i \in 1..Len(rows) |-> [c \in Range(display_cols) |-> rows[i][c]]]

Ascending(rows) ==
    \A i \in 1..Len(rows) - 1 :
        StrRank(rows[i]["health_status"]) <= StrRank(rows[i + 1]["health_status"])

\* the rows as they are, not sorted
sort_values_omitted(rows) == {rows}

\* .sort_values(by='health_status'): the default sort is not stable, so rows
\* of equal health_status come out in any order
sort_values(rows) ==
    {t \in {[i \in 1..Len(rows) |-> rows[o[i]]] : o \in Orders(1..Len(rows))} :
        Ascending(t)}

\* the decimal text of a number below ten
NumText(n) ==
    CASE n = 0 -> "0" [] n = 1 -> "1" [] n = 2 -> "2" [] n = 3 -> "3"
      [] n = 4 -> "4" [] n = 5 -> "5" [] n = 6 -> "6" [] n = 7 -> "7"
      [] n = 8 -> "8" [] n = 9 -> "9"

TextNum(t) == CHOOSE n \in 0..9 : NumText(n) = t

\* .to_csv(index=False): the header line, then one line of fields per row
to_csv(rows) ==
    <<display_cols>> \o
    [i \in 1..Len(rows) |-> <<rows[i]["health_status"],
                              NumText(rows[i]["latitude"]),
                              NumText(rows[i]["longitude"])>>]

\* pd.read_csv of the exported text
read_csv(text) ==
    [i \in 1..Len(text) - 1 |->
        [c \in Range(text[1]) |->
            LET k == CHOOSE j \in 1..Len(text[1]) : text[1][j] = c
            IN IF c = "health_status" THEN text[i + 1][k]
               ELSE TextNum(text[i + 1][k])]]

\* unstack() without fill_value: a combination that does not occur has no count
unstack_size_unfilled(df) ==
    LET keyed  == {r \in Range(df.rows) : HasCell(r, "health_status")}
        dates  == {r["__date__"] : r \in keyed}
        stats  == {r["health_status"] : r \in keyed}
        n(d, v) == Len(Mask(df.rows, [i \in 1..Len(df.rows) |->
                                        /\ CellIs(df.rows[i], "health_status", v)
                                        /\ df.rows[i]["__date__"] = d]))
    IN [index   |-> CHOOSE o \in Orders(dates) :
                        \A i \in 1..Len(o) - 1 : o[i] < o[i + 1],
        columns |-> CHOOSE o \in Orders(stats) :
                        \A i \in 1..Len(o) - 1 : StrRank(o[i]) < StrRank(o[i + 1]),
        cell    |-> [d \in dates |-> [v \in {x \in stats : n(d, x) > 0} |-> n(d, v)]]]

\* .groupby(['__date__', 'health_status']).size().unstack(fill_value=0):
\* groupby drops the rows whose key is NaN and sorts the keys
unstack_size(df) ==
    LET keyed  == {r \in Range(df.rows) : HasCell(r, "health_status")}
        dates  == {r["__date__"] : r \in keyed}
        stats  == {r["health_status"] : r \in keyed}
        n(d, v) == Len(Mask(df.rows, [i \in 1..Len(df.rows) |->
                                        /\ CellIs(df.rows[i], "health_status", v)
                                        /\ df.rows[i]["__date__"] = d]))
    IN [index   |-> CHOOSE o \in Orders(dates) :
                        \A i \in 1..Len(o) - 1 : o[i] < o[i + 1],
        columns |-> CHOOSE o \in Orders(stats) :
                        \A i \in 1..Len(o) - 1 : StrRank(o[i]) < StrRank(o[i + 1]),
        cell    |-> [d \in dates |-> [v \in stats |-> n(d, v)]]]

NoFrame == [columns |-> {}, rows |-> <<>>]

-----------------------------------------------------------------------------
(* The state after construction *)

NoKpi == [h |-> 0, m |-> 0, u |-> 0, t |-> 0]
NoTable == [index |-> <<>>, columns |-> <<>>, cell |-> <<>>]

Init ==
    /\ pc = "config"
    /\ root_exists \in BOOLEAN
    /\ entries \in [Names -> Kinds]
    /\ ~root_exists => \A d \in Names : entries[d] = "absent"
    /\ all_dates = <<>>
    /\ csv_seen = [d \in Names |-> Unread]
    /\ all_data = <<>>
    /\ full_df = NoFrame
    /\ selected_date = 0
    /\ selected_palm_df = NoFrame
    /\ kpi = NoKpi
    /\ pie_data = <<>>
    /\ images = {}
    /\ map_img = FALSE
    /\ heatmaps = <<>>
    /\ risky_palms = NoFrame
    /\ at_risk_table = <<>>
    /\ csv_data = <<>>
    /\ time_series = NoTable
    /\ shown = {}
    /\ error = "none"

Halt(msg) ==
    /\ pc' = "halted"
    /\ error' = msg
    /\ shown' = shown \cup {"error"}

-----------------------------------------------------------------------------
(* CONFIG and SETUP: lines 9-17 *)

Config ==
    /\ pc = "config"
    /\ IF ~root_exists
       THEN Halt("DATA_DIR not found")
       ELSE /\ pc' = "scan"
            /\ shown' = shown \cup {"title"}
            /\ UNCHANGED error
    /\ UNCHANGED <<root_exists, entries, all_dates, csv_seen, all_data, full_df,
                   selected_date, selected_palm_df, kpi, pie_data, images,
                   map_img, heatmaps, risky_palms, at_risk_table, csv_data,
                   time_series>>

(* LOAD ALL DATA: lines 48-51 *)

Scan ==
    /\ pc = "scan"
    /\ \E listing \in Orders({d \in Names : entries[d] # "absent"}) :
          all_dates' = get_all_dates(listing)
    /\ IF all_dates' = <<>>
       THEN Halt("No dated folders found")
       ELSE /\ pc' = "load"
            /\ UNCHANGED <<shown, error>>
    /\ UNCHANGED <<root_exists, entries, csv_seen, all_data, full_df,
                   selected_date, selected_palm_df, kpi, pie_data, images,
                   map_img, heatmaps, risky_palms, at_risk_table, csv_data,
                   time_series>>

\* the first folder of all_dates that the loop of lines 54-57 has not read
Pending == {i \in 1..Len(all_dates) : csv_seen[all_dates[i]] = Unread}

RecordsLoaded == Len(Flatten([i \in 1..Len(all_data) |-> all_data[i].rows]))

(* one iteration of the loop of lines 54-57 *)
Load ==
    /\ pc = "load"
    /\ Pending # {}
    /\ LET i == CHOOSE k \in Pending : \A j \in Pending : k <= j
           d == all_dates[i]
       IN \E file \in {NoFile} \cup CsvFiles(d, MaxRecords - RecordsLoaded) :
             /\ csv_seen' = [csv_seen EXCEPT ![d] = file]
             /\ all_data' = IF file = NoFile THEN all_data
                            ELSE Append(all_data, load_data(d, file))
    /\ UNCHANGED <<pc, root_exists, entries, all_dates, full_df,
                   selected_date, selected_palm_df, kpi, pie_data, images,
                   map_img, heatmaps, risky_palms, at_risk_table, csv_data,
                   time_series, shown, error>>

\* halts as soon as one folder lacks its CSV
Union_strict ==
    /\ pc = "load"
    /\ Pending = {}
    /\ IF Len(all_data) < Len(all_dates)
       THEN /\ Halt("No valid CSV files found")
            /\ UNCHANGED full_df
       ELSE /\ full_df' = concat(all_data)
            /\ pc' = "classify"
            /\ UNCHANGED <<shown, error>>
    /\ UNCHANGED <<root_exists, entries, all_dates, csv_seen, all_data,
                   selected_date, selected_palm_df, kpi, pie_data, images,
                   map_img, heatmaps, risky_palms, at_risk_table, csv_data,
                   time_series>>

(* lines 59-64 *)
Union ==
    /\ pc = "load"
    /\ Pending = {}
    /\ IF all_data = <<>>
       THEN /\ Halt("No valid CSV files found")
            /\ UNCHANGED full_df
       ELSE /\ full_df' = concat(all_data)
            /\ pc' = "classify"
            /\ UNCHANGED <<shown, error>>
    /\ UNCHANGED <<root_exists, entries, all_dates, csv_seen, all_data,
                   selected_date, selected_palm_df, kpi, pie_data, images,
                   map_img, heatmaps, risky_palms, at_risk_table, csv_data,
                   time_series>>

\* asks for the ndvi column even when health_status is there
Classify_ndvi_first ==
    /\ pc = "classify"
    /\ IF "ndvi" \notin full_df.columns
       THEN /\ Halt("Missing NDVI column")
            /\ UNCHANGED full_df
       ELSE IF "health_status" \notin full_df.columns
            THEN /\ full_df' = AssignHealth(full_df)
                 /\ pc' = "select"
                 /\ UNCHANGED <<shown, error>>
            ELSE /\ pc' = "select"
                 /\ UNCHANGED <<full_df, shown, error>>
    /\ UNCHANGED <<root_exists, entries, all_dates, csv_seen, all_data,
                   selected_date, selected_palm_df, kpi, pie_data, images,
                   map_img, heatmaps, risky_palms, at_risk_table, csv_data,
                   time_series>>

(* lines 67-72 *)
Classify ==
    /\ pc = "classify"
    /\ IF "health_status" \notin full_df.columns
       THEN IF "ndvi" \in full_df.columns
            THEN /\ full_df' = AssignHealth(full_df)
                 /\ pc' = "select"
                 /\ UNCHANGED <<shown, error>>
            ELSE /\ Halt("Missing NDVI column")
                 /\ UNCHANGED full_df
       ELSE /\ pc' = "select"
            /\ UNCHANGED <<full_df, shown, error>>
    /\ UNCHANGED <<root_exists, entries, all_dates, csv_seen, all_data,
                   selected_date, selected_palm_df, kpi, pie_data, images,
                   map_img, heatmaps, risky_palms, at_risk_table, csv_data,
                   time_series>>

(* Sidebar, date selection: lines 75-77 *)
Select ==
    /\ pc = "select"
    /\ \E d \in Range(all_dates) :
          /\ selected_date' = d
          /\ LET selected_df ==
                     Filter(full_df, [i \in 1..Len(full_df.rows) |->
                                        full_df.rows[i]["__date__"] = d])
             IN selected_palm_df' =
                     Filter(selected_df, [i \in 1..Len(selected_df.rows) |->
                                            IsPalm(selected_df.rows[i])])
    /\ shown' = shown \cup {"selectbox"}
    /\ pc' = "kpis"
    /\ UNCHANGED <<root_exists, entries, all_dates, csv_seen, all_data, full_df,
                   kpi, pie_data, images, map_img, heatmaps, risky_palms,
                   at_risk_table, csv_data, time_series, error>>

(* KPIs: lines 80-89 *)
Kpis ==
    /\ pc = "kpis"
    /\ kpi' = [h |-> CountStatus(selected_palm_df, "Healthy"),
               m |-> CountStatus(selected_palm_df, "Moderate"),
               u |-> CountStatus(selected_palm_df, "Unhealthy"),
               t |-> Len(selected_palm_df.rows)]
    /\ shown' = shown \cup {"kpis"}
    /\ pc' = "charts"
    /\ UNCHANGED <<root_exists, entries, all_dates, csv_seen, all_data, full_df,
                   selected_date, selected_palm_df, pie_data, images, map_img,
                   heatmaps, risky_palms, at_risk_table, csv_data, time_series,
                   error>>

(* PIE CHART and RESI BAR CHART: lines 92-104 *)
Charts ==
    /\ pc = "charts"
    /\ pie_data' = value_counts(selected_palm_df)
    /\ shown' = shown \cup {"pie"} \cup
                 (IF "resi" \in selected_palm_df.columns THEN {"bar_chart"} ELSE {})
    /\ pc' = "images"
    /\ UNCHANGED <<root_exists, entries, all_dates, csv_seen, all_data, full_df,
                   selected_date, selected_palm_df, kpi, images, map_img,
                   heatmaps, risky_palms, at_risk_table, csv_data, time_series,
                   error>>

(* HEALTH MAP IMAGE and INDEX HEATMAPS: lines 107-130 *)
Images ==
    /\ pc = "images"
    /\ \E files \in ImageSets :
          /\ images' = files
          /\ map_img' = ("health_grid" \in files)
          /\ heatmaps' = [i \in 1..Len(index_names) |->
                             [index |-> index_names[i],
                              col   |-> (i - 1) % HeatmapCols,
                              img   |-> index_names[i] \in files]]
    /\ shown' = shown
                 \cup {IF map_img' THEN "map_image" ELSE "map_info"}
                 \cup {IF heatmaps'[i].img THEN "heatmap_image" ELSE "heatmap_info" :
                          i \in 1..Len(index_names)}
    /\ pc' = "at_risk"
    /\ UNCHANGED <<root_exists, entries, all_dates, csv_seen, all_data, full_df,
                   selected_date, selected_palm_df, kpi, pie_data, risky_palms,
                   at_risk_table, csv_data, time_series, error>>

IsRisky(r) == CellIs(r, "health_status", "Moderate") \/ CellIs(r, "health_status", "Unhealthy")

(* MODERATE & UNHEALTHY PALM LOCATIONS: lines 133-152 *)
AtRisk ==
    /\ pc = "at_risk"
    /\ risky_palms' = Filter(selected_palm_df,
                             [i \in 1..Len(selected_palm_df.rows) |->
                                IsRisky(selected_palm_df.rows[i])])
    /\ IF risky_palms'.rows # <<>>
       THEN /\ at_risk_table' \in sort_values(Project(risky_palms'.rows))
            /\ csv_data' = to_csv(Project(risky_palms'.rows))
            /\ shown' = shown \cup {"at_risk_table", "at_risk_download"}
       ELSE /\ shown' = shown \cup {"at_risk_info"}
            /\ UNCHANGED <<at_risk_table, csv_data>>
    /\ pc' = "trend"
    /\ UNCHANGED <<root_exists, entries, all_dates, csv_seen, all_data, full_df,
                   selected_date, selected_palm_df, kpi, pie_data, images,
                   map_img, heatmaps, time_series, error>>

(* TIME SERIES LINE CHART and DOWNLOAD BUTTON: lines 156-167 *)
Trend ==
    /\ pc = "trend"
    /\ LET palm_df == Filter(full_df, [i \in 1..Len(full_df.rows) |->
                                         IsPalm(full_df.rows[i])])
       IN time_series' = unstack_size(palm_df)
    /\ shown' = shown \cup {"line_chart", "download_all"}
    /\ pc' = "done"
    /\ UNCHANGED <<root_exists, entries, all_dates, csv_seen, all_data, full_df,
                   selected_date, selected_palm_df, kpi, pie_data, images,
                   map_img, heatmaps, risky_palms, at_risk_table, csv_data,
                   error>>

Next ==
    \/ Config
    \/ Scan
    \/ Load
    \/ Union
    \/ Classify
    \/ Select
    \/ Kpis
    \/ Charts
    \/ Images
    \/ AtRisk
    \/ Trend

Spec == Init /\ [][Next]_vars

-----------------------------------------------------------------------------
(* Positions of the script *)

AfterScan     == pc \notin {"config", "scan"}
AfterClassify == pc \in {"select", "kpis", "charts", "images", "at_risk", "trend", "done"}
AfterKpis     == pc \in {"charts", "images", "at_risk", "trend", "done"}
AfterImages   == pc \in {"at_risk", "trend", "done"}
AfterAtRisk   == pc \in {"trend", "done"}
Terminal      == pc \in {"halted", "done"}

Records == Range(full_df.rows)

\* the classifier ran: no loaded file brought a health_status column
Classified ==
    AfterClassify /\ \A i \in 1..Len(all_data) : "health_status" \notin all_data[i].columns

Count(s, P(_)) == Cardinality({i \in 1..Len(s) : P(s[i])})

SameBag(s, t) ==
    /\ Len(s) = Len(t)
    /\ \A x \in Range(s) \cup Range(t) :
          Count(s, LAMBDA y : y = x) = Count(t, LAMBDA y : y = x)

Buckets == {"Healthy", "Moderate", "Unhealthy", "Soil"}

-----------------------------------------------------------------------------
(* C1: for every palm record the classifier returns Healthy iff            *)
(* ndvi >= 0.6, Moderate iff 0.3 <= ndvi < 0.6 and Unhealthy iff           *)
(* ndvi < 0.3.  Stated of every record the classifier was applied to.      *)
C1_PalmBuckets ==
    Classified =>
        \A r \in Records : IsPalm(r) =>
            /\ r["health_status"] = "Healthy"
                  <=> (HasCell(r, "ndvi") /\ r["ndvi"] >= HealthyMin)
            /\ r["health_status"] = "Moderate"
                  <=> (HasCell(r, "ndvi") /\ r["ndvi"] >= ModerateMin
                                          /\ r["ndvi"] < HealthyMin)
            /\ r["health_status"] = "Unhealthy"
                  <=> (HasCell(r, "ndvi") /\ r["ndvi"] < ModerateMin)

(* C2: every record of the unioned record set whose class is not "palm"    *)
(* has health_status "Soil", whatever its ndvi.                            *)
C2_NonPalmIsSoil ==
    AfterClassify =>
        \A r \in Records : ~IsPalm(r) => CellIs(r, "health_status", "Soil")

(* C3: the KPI total t is the number of palm records of the selected date, *)
(* and the Healthy, Moderate and Unhealthy counts sum to it.               *)
C3_KpiTotals ==
    AfterKpis =>
        /\ kpi.t = Count(full_df.rows,
                         LAMBDA r : r["__date__"] = selected_date /\ IsPalm(r))
        /\ kpi.h + kpi.m + kpi.u = kpi.t

\* the palm records of the selected date whose bucket is Moderate or Unhealthy
AtRiskRecords ==
    LET risky(r) == /\ r["__date__"] = selected_date
                    /\ CellIs(r, "class", "palm")
                    /\ HasCell(r, "health_status")
                    /\ r["health_status"] \in {"Moderate", "Unhealthy"}
        at == {i \in 1..Len(full_df.rows) : risky(full_df.rows[i])}
    IN [k \in 1..Cardinality(at) |->
          full_df.rows[CHOOSE i \in at : Cardinality({j \in at : j <= i}) = k]]

(* C4: the at-risk listing holds exactly the palm records of the selected  *)
(* date whose health_status is Moderate or Unhealthy, each projected to    *)
(* (health_status, latitude, longitude), in ascending order of             *)
(* health_status.                                                          *)
C4_AtRiskListing ==
    AfterAtRisk =>
        /\ SameBag(at_risk_table,
                   [i \in 1..Len(AtRiskRecords) |->
                      [health_status |-> AtRiskRecords[i]["health_status"],
                       latitude      |-> AtRiskRecords[i]["latitude"],
                       longitude     |-> AtRiskRecords[i]["longitude"]]])
        /\ \A i, j \in 1..Len(at_risk_table) :
              i < j => at_risk_table[i]["health_status"] # "Unhealthy"
                       \/ at_risk_table[j]["health_status"] # "Moderate"
        /\ ("at_risk_table" \in shown) <=> (AtRiskRecords # <<>>)

\* the listing has both buckets and is not in the order of the file
C4_Witness ==
    /\ pc = "done"
    /\ Len(at_risk_table) = 2
    /\ at_risk_table[1]["health_status"] = "Moderate"
    /\ at_risk_table[2]["health_status"] = "Unhealthy"
    /\ at_risk_table[1]["latitude"] = 2

PalmRecords == {r \in Records : IsPalm(r)}

TableCounts(rowDates, colStatuses) ==
    /\ Range(time_series.index) = rowDates
    /\ Len(time_series.index) = Cardinality(rowDates)
    /\ Range(time_series.columns) = colStatuses
    /\ Len(time_series.columns) = Cardinality(colStatuses)
    /\ DOMAIN time_series.cell = rowDates
    /\ \A d \in rowDates :
          /\ DOMAIN time_series.cell[d] = colStatuses
          /\ \A v \in colStatuses :
                time_series.cell[d][v] =
                    Count(full_df.rows, LAMBDA r : /\ IsPalm(r)
                                                   /\ r["__date__"] = d
                                                   /\ CellIs(r, "health_status", v))

(* C5 as claimed: the time-series table has one row for every date present *)
(* in the input (every date with a record in the unioned record set), one  *)
(* column for every health bucket observed, zero for a missing             *)
(* combination and the number of palm records in every cell.  Stated of    *)
(* the passes whose input has a palm record.                               *)
C5_RowPerInputDate ==
    pc = "done" /\ PalmRecords # {} =>
        TableCounts({r["__date__"] : r \in Records},
                    {r["health_status"] : r \in {x \in PalmRecords : HasCell(x, "health_status")}})

(* C5 as amended: the time-series table has one row for every date that    *)
(* has a palm record with a health_status value, in ascending order of     *)
(* date, one column for every health_status value of a palm record, and    *)
(* every cell, zero included, is the number of palm records of that date   *)
(* and health_status.                                                      *)
C5_TimeSeries ==
    pc = "done" =>
        LET keyed == {r \in PalmRecords : HasCell(r, "health_status")}
        IN /\ TableCounts({r["__date__"] : r \in keyed},
                          {r["health_status"] : r \in keyed})
           /\ \A i \in 1..Len(time_series.index) - 1 :
                 time_series.index[i] < time_series.index[i + 1]

\* two dates, two buckets, and a combination without a palm record
C5_Witness ==
    /\ pc = "done"
    /\ Len(time_series.index) = 2
    /\ Len(time_series.columns) = 2
    /\ \E d \in DOMAIN time_series.cell : \E v \in DOMAIN time_series.cell[d] :
          time_series.cell[d][v] = 0

(* C6: the exported CSV, parsed again, is the at-risk listing shown to the *)
(* user: the same tuples in the same order.  The sort of the listing       *)
(* leaves the order of rows of equal health_status open, so the order is   *)
(* compared on health_status: line by line the export and the listing      *)
(* show the same health_status, and they hold the same tuples.             *)
C6_ExportRoundTrip ==
    "at_risk_download" \in shown =>
        LET parsed == read_csv(csv_data)
        IN /\ SameBag(parsed, at_risk_table)
           /\ \A i \in 1..Len(at_risk_table) :
                 parsed[i]["health_status"] = at_risk_table[i]["health_status"]

\* what the pass found on disk
Dirs == {d \in Names : entries[d] = "dir"}
WithCsv == {d \in Dirs : csv_seen[d] \notin {Unread, NoFile}}
NoRoot == ~root_exists
NoDirs == root_exists /\ Dirs = {}
NoCsv == root_exists /\ Dirs # {} /\ \A d \in Dirs : csv_seen[d] = NoFile
NoNdviNoStatus ==
    /\ WithCsv # {}
    /\ \A d \in WithCsv : csv_seen[d].header \cap {" NDVI", "Health_Status"} = {}

(* C7 as claimed: a pass halts with an error in exactly two conditions,    *)
(* a missing root directory or a unioned record set with neither an ndvi   *)
(* nor a health_status column; partitions without their CSV never halt it. *)
C7_TwoHalts ==
    Terminal => (pc = "halted" <=> (NoRoot \/ NoNdviNoStatus))

(* C7 as amended: a pass reports an error and stops in exactly four        *)
(* conditions: the root directory is missing, it has no subdirectory, no   *)
(* subdirectory has its CSV, or the unioned record set has neither an ndvi *)
(* nor a health_status column.  A partition without its CSV is skipped     *)
(* and does not stop the pass as long as another partition has its CSV,    *)
(* and a missing image is replaced by a placeholder and never stops it.    *)
C7_FourHalts ==
    /\ Terminal =>
          /\ pc = "halted" <=> (NoRoot \/ NoDirs \/ NoCsv \/ NoNdviNoStatus)
          /\ error = "DATA_DIR not found" <=> NoRoot
          /\ error = "No dated folders found" <=> NoDirs
          /\ error = "No valid CSV files found" <=> NoCsv
          /\ error = "Missing NDVI column" <=> NoNdviNoStatus
          /\ error = "none" <=> pc = "done"
    /\ AfterScan /\ pc # "halted" =>
          \A d \in Dirs : csv_seen[d] = NoFile =>
              \A i \in 1..Len(all_data) : \A r \in Range(all_data[i].rows) :
                  r["__date__"] # d
    /\ AfterImages =>
          /\ pc # "halted"
          /\ ("health_grid" \notin images) <=> ("map_info" \in shown)
          /\ (\E x \in IndexSet : x \notin images) <=> ("heatmap_info" \in shown)
          /\ \A i \in 1..Len(index_names) :
                heatmaps[i].img <=> (index_names[i] \in images)

\* a pass that ran to its end with a partition without CSV and without map
C7_Witness ==
    /\ pc = "done"
    /\ \E d \in Dirs : csv_seen[d] = NoFile
    /\ "health_grid" \notin images
    /\ "map_info" \in shown

(* C8: if the unioned record set has neither an ndvi nor a health_status   *)
(* column the program reports an error and halts before any KPI, chart,    *)
(* listing or export; in every other case in which records were loaded     *)
(* the pass does not take this error path.                                 *)
C8_MissingNdviHalts ==
    LET columns == UNION {all_data[i].columns : i \in 1..Len(all_data)}
        decided == all_data # <<>> /\ pc \notin {"config", "scan", "load", "classify"}
    IN /\ decided =>
             (("ndvi" \notin columns /\ "health_status" \notin columns)
                 <=> (pc = "halted" /\ error = "Missing NDVI column"))
       /\ error = "Missing NDVI column" =>
             /\ pc = "halted"
             /\ all_data # <<>>
             /\ shown = {"title", "error"}
             /\ kpi = NoKpi /\ pie_data = <<>> /\ at_risk_table = <<>>
             /\ csv_data = <<>> /\ time_series = NoTable

\* two partitions were loaded and neither has an ndvi or health_status column
C8_Witness ==
    /\ pc = "halted"
    /\ error = "Missing NDVI column"
    /\ Len(all_data) = 2

(* C9: the directory scanner returns the names of the subdirectories of    *)
(* the root in sorted order, and the program reports an error and halts,   *)
(* loading no CSV and rendering no widget, whenever the root does not      *)
(* exist or has no subdirectory.  (The page title of line 17 is a heading  *)
(* that precedes the scan; it is recorded in shown and is not a widget.)   *)
C9_Scanner ==
    AfterScan =>
        /\ root_exists =>
              /\ Range(all_dates) = Dirs
              /\ \A i \in 1..Len(all_dates) - 1 : all_dates[i] < all_dates[i + 1]
        /\ (NoRoot \/ NoDirs) =>
              /\ pc = "halted"
              /\ error = (IF NoRoot THEN "DATA_DIR not found" ELSE "No dated folders found")
              /\ \A d \in Names : csv_seen[d] = Unread
              /\ all_data = <<>>
              /\ shown \subseteq {"title", "error"}
              /\ "error" \in shown

\* the root holds entries, none of them a directory
C9_Witness ==
    /\ pc = "halted"
    /\ root_exists
    /\ \E d \in Names : entries[d] = "file"
    /\ \A d \in Names : entries[d] # "dir"

(* C10: past the classification step every record carries one source date  *)
(* and a health_status of {Healthy, Moderate, Unhealthy, Soil} that is the *)
(* classifier's result for its class and ndvi, also when some partition    *)
(* CSVs already hold a health_status column.                               *)
C10_StatusIsClassifier ==
    AfterClassify =>
        \A r \in Records :
            /\ HasCell(r, "__date__") /\ r["__date__"] \in Range(all_dates)
            /\ HasCell(r, "health_status")
            /\ r["health_status"] \in Buckets
            /\ "ndvi" \in full_df.columns => r["health_status"] = classify_health(r)

====
